---- MODULE Spec2Model ----
(***************************************************************************)
(* Model of the grimoire library catalog (src/eslint.config.js, lines      *)
(* 37-833): the DataProvider entity store with its localStorage load and   *)
(* save effects, and the App navigation state with renderView.             *)
(*                                                                         *)
(* React scheduling is modelled as it runs: an event handler only queues   *)
(* state updates (setBooks, setCharacters, setView, ...); the next render  *)
(* applies the queued updaters and commits the new state; the effects      *)
(* whose dependency changed then run in declaration order (load, save      *)
(* books, save characters).  User events are accepted only when no render  *)
(* and no effect is pending.                                               *)
(***************************************************************************)
EXTENDS Integers, Sequences, FiniteSets, TLC

VARIABLES
    books,                \* useState([]) of DataProvider, line 46
    characters,           \* useState([]) of DataProvider, line 47
    lsBooks,              \* localStorage slot 'books'
    lsCharacters,         \* localStorage slot 'characters'
    view,                 \* useState('books') of App, line 726
    selectedBookId,       \* line 727
    selectedCharacterId,  \* line 728
    shown,                \* the element tree renderView returned at the last render
    qBooks,               \* queued setBooks updates, applied by the next render
    qCharacters,          \* queued setCharacters updates
    qNav,                 \* queued setView/setSelectedBookId/setSelectedCharacterId
    effects,              \* effects of the last commit that have not run yet, in order
    now,                  \* the value Date.now() returns
    last,                 \* history: the last handler or effect that queued updates, with its arguments
    prevBooks,            \* history: books as seen by that handler
    prevCharacters        \* history: characters as seen by that handler

vars == <<books, characters, lsBooks, lsCharacters, view, selectedBookId,
          selectedCharacterId, shown, qBooks, qCharacters, qNav, effects, now,
          last, prevBooks, prevCharacters>>

(***************************************************************************)
(* Bounds of the model.                                                    *)
(***************************************************************************)
MaxBooks == 2
MaxChars == 2
MaxClock == 3

\* null / undefined identifier (useState(null), default parameters of navigate)
NoId == 0

(***************************************************************************)
(* Records.  A book is {id, title, author, coverImage, readStatus, notes}  *)
(* (line 325); a character is {id, name, image, origin, family, summary,   *)
(* backstory, bookId} (lines 593-602).                                     *)
(***************************************************************************)
Titles == {"", "Dune"}
Authors == {"", "Herrick"}
Statuses == {"To Read", "Read"}
Names == {"", "Jessica"}

StoredBook ==
    [id |-> 1, title |-> "Dune", author |-> "Herrick", coverImage |-> "",
     readStatus |-> "To Read", notes |-> ""]

StoredCharacter ==
    [id |-> 1, name |-> "Paul", image |-> "", origin |-> "", family |-> "",
     summary |-> "", backstory |-> "", bookId |-> 1]

FirstTick == StoredBook.id + 1

(***************************************************************************)
(* JSON.stringify / JSON.parse of the two collections.  The text of a      *)
(* collection is the list of its objects, an object is the list of its     *)
(* key/value members in insertion order, and a value is a number token or  *)
(* a string token.                                                         *)
(***************************************************************************)
NumTok(n) == [t |-> "num", n |-> n, s |-> ""]
StrTok(s) == [t |-> "str", n |-> 0, s |-> s]
Member(k, v) == [k |-> k, v |-> v]

stringifyBook(b) ==
    << Member("id", NumTok(b.id)), Member("title", StrTok(b.title)),
       Member("author", StrTok(b.author)),
       Member("coverImage", StrTok(b.coverImage)),
       Member("readStatus", StrTok(b.readStatus)),
       Member("notes", StrTok(b.notes)) >>

stringifyCharacter(c) ==
    << Member("id", NumTok(c.id)), Member("name", StrTok(c.name)),
       Member("image", StrTok(c.image)), Member("origin", StrTok(c.origin)),
       Member("family", StrTok(c.family)),
       Member("summary", StrTok(c.summary)),
       Member("backstory", StrTok(c.backstory)),
       Member("bookId", NumTok(c.bookId)) >>

\* the value of member k of a parsed object
Prop(obj, k) ==
    LET i == CHOOSE j \in 1..Len(obj) : obj[j].k = k
    IN  IF obj[i].v.t = "num" THEN obj[i].v.n ELSE obj[i].v.s

\* a reader that takes every book as still to be read
parseBook_StatusDefault(obj) ==
    [id |-> Prop(obj, "id"), title |-> Prop(obj, "title"),
     author |-> Prop(obj, "author"), coverImage |-> Prop(obj, "coverImage"),
     readStatus |-> "To Read", notes |-> Prop(obj, "notes")]

parseBook(obj) ==
    [id |-> Prop(obj, "id"), title |-> Prop(obj, "title"),
     author |-> Prop(obj, "author"), coverImage |-> Prop(obj, "coverImage"),
     readStatus |-> Prop(obj, "readStatus"), notes |-> Prop(obj, "notes")]

parseCharacter(obj) ==
    [id |-> Prop(obj, "id"), name |-> Prop(obj, "name"),
     image |-> Prop(obj, "image"), origin |-> Prop(obj, "origin"),
     family |-> Prop(obj, "family"), summary |-> Prop(obj, "summary"),
     backstory |-> Prop(obj, "backstory"), bookId |-> Prop(obj, "bookId")]

\* A storage slot: no item, text that is not JSON, JSON that is not an
\* array, or the JSON text of an array of objects.
Absent == [kind |-> "absent", items |-> <<>>]
BadText == [kind |-> "bad", items |-> <<>>]
NonList == [kind |-> "nonlist", items |-> <<>>]
ListText(items) == [kind |-> "list", items |-> items]

stringifyBooks(bs) == ListText([i \in 1..Len(bs) |-> stringifyBook(bs[i])])
stringifyCharacters(cs) ==
    ListText([i \in 1..Len(cs) |-> stringifyCharacter(cs[i])])

\* `if (storedBooks)`: getItem returned a non-empty string
Truthy(slot) == slot.kind # "absent"
\* JSON.parse throws a SyntaxError
ParseThrows(slot) == slot.kind = "bad"

\* a JavaScript value that is not an array (an object, a number, null)
NotAnArray == <<[notArray |-> TRUE]>>
\* Array.isArray(x)
isArray(x) == x # NotAnArray

\* JSON.parse of a slot whose text parses
parsedBooks(slot) ==
    IF slot.kind = "list"
    THEN [i \in 1..Len(slot.items) |-> parseBook(slot.items[i])]
    ELSE NotAnArray
parsedChars(slot) ==
    IF slot.kind = "list"
    THEN [i \in 1..Len(slot.items) |-> parseCharacter(slot.items[i])]
    ELSE NotAnArray

(***************************************************************************)
(* State updates.  A queued update is either a value (setBooks([])) or an  *)
(* updater function of the previous state; the updaters are the arrow      *)
(* functions of lines 95-120.                                              *)
(***************************************************************************)
SetTo(val) == [kind |-> "set", val |-> val]
AddUpd(rec) == [kind |-> "add", rec |-> rec]
MapUpd(rec) == [kind |-> "map", rec |-> rec]
FilterIdUpd(id) == [kind |-> "filterId", id |-> id]
FilterBookIdUpd(id) == [kind |-> "filterBookId", id |-> id]

\* the add updater putting the new record first
addUpdater_Prepend(prev, rec, t) ==
    IF isArray(prev) THEN <<[rec EXCEPT !.id = t]>> \o prev
    ELSE <<[rec EXCEPT !.id = t]>>

\* Array.isArray(prev) ? [...prev, { ...rec, id: Date.now() }]
\*                     : [{ ...rec, id: Date.now() }]
addUpdater(prev, rec, t) ==
    IF isArray(prev) THEN Append(prev, [rec EXCEPT !.id = t])
    ELSE <<[rec EXCEPT !.id = t]>>

\* an update that adds the record when no record has its id
mapUpdater_Upsert(prev, updated) ==
    IF ~isArray(prev) THEN <<>>
    ELSE IF \E i \in 1..Len(prev) : prev[i].id = updated.id
    THEN [i \in 1..Len(prev) |->
              IF prev[i].id = updated.id THEN updated ELSE prev[i]]
    ELSE Append(prev, updated)

\* Array.isArray(prev) ? prev.map(x => x.id === updated.id ? updated : x) : []
mapUpdater(prev, updated) ==
    IF isArray(prev)
    THEN [i \in 1..Len(prev) |->
              IF prev[i].id = updated.id THEN updated ELSE prev[i]]
    ELSE <<>>

\* Array.isArray(prev) ? prev.filter(x => x.id !== id) : []
filterIdUpdater(prev, id) ==
    IF isArray(prev) THEN SelectSeq(prev, LAMBDA x : x.id # id) ELSE <<>>

\* the cascade filtering on the character's own id instead of its bookId
filterBookIdUpdater_ById(prev, id) ==
    IF isArray(prev) THEN SelectSeq(prev, LAMBDA c : c.id # id) ELSE <<>>

\* Array.isArray(prevChars) ? prevChars.filter(char => char.bookId !== id) : []
filterBookIdUpdater(prev, id) ==
    IF isArray(prev) THEN SelectSeq(prev, LAMBDA c : c.bookId # id) ELSE <<>>

ApplyUpdate(u, prev, t) ==
    CASE u.kind = "set" -> u.val
      [] u.kind = "add" -> addUpdater(prev, u.rec, t)
      [] u.kind = "map" -> mapUpdater(prev, u.rec)
      [] u.kind = "filterId" -> filterIdUpdater(prev, u.id)
      [] u.kind = "filterBookId" -> filterBookIdUpdater(prev, u.id)

RECURSIVE ApplyQueue(_, _, _)
ApplyQueue(q, prev, t) ==
    IF q = <<>> THEN prev
    ELSE ApplyQueue(Tail(q), ApplyUpdate(Head(q), prev, t), t)

(***************************************************************************)
(* The store functions the provider hands out (lines 93-121).  Each one    *)
(* only queues updaters; none returns a value.                             *)
(***************************************************************************)
addBook(book) ==
    /\ qBooks' = Append(qBooks, AddUpd(book))
    /\ UNCHANGED qCharacters

updateBook(updatedBook) ==
    /\ qBooks' = Append(qBooks, MapUpd(updatedBook))
    /\ UNCHANGED qCharacters

\* deleteBook doing nothing at all when no book has the id
deleteBook_IfFound(id) ==
    IF \E i \in 1..Len(books) : books[i].id = id
    THEN /\ qBooks' = Append(qBooks, FilterIdUpd(id))
         /\ qCharacters' = Append(qCharacters, FilterBookIdUpd(id))
    ELSE UNCHANGED <<qBooks, qCharacters>>

\* deleteBook without the cascade to the characters
deleteBook_NoCascade(id) ==
    /\ qBooks' = Append(qBooks, FilterIdUpd(id))
    /\ UNCHANGED qCharacters

deleteBook(id) ==
    /\ qBooks' = Append(qBooks, FilterIdUpd(id))
    /\ qCharacters' = Append(qCharacters, FilterBookIdUpd(id))

addCharacter(character) ==
    /\ qCharacters' = Append(qCharacters, AddUpd(character))
    /\ UNCHANGED qBooks

\* updateCharacter storing the record without its parent book
updateCharacter_DropsBookId(updatedCharacter) ==
    /\ qCharacters' =
           Append(qCharacters, MapUpd([updatedCharacter EXCEPT !.bookId = NoId]))
    /\ UNCHANGED qBooks

updateCharacter(updatedCharacter) ==
    /\ qCharacters' = Append(qCharacters, MapUpd(updatedCharacter))
    /\ UNCHANGED qBooks

\* deleteCharacter cascading to the book that has the same id
deleteCharacter_AlsoBook(id) ==
    /\ qCharacters' = Append(qCharacters, FilterIdUpd(id))
    /\ qBooks' = Append(qBooks, FilterIdUpd(id))

deleteCharacter(id) ==
    /\ qCharacters' = Append(qCharacters, FilterIdUpd(id))
    /\ UNCHANGED qBooks

\* what addBook evaluates to for its caller: the arrow function body is a
\* block without a return statement, so the call yields undefined
addBookReturn == NoId

(***************************************************************************)
(* App: navigation state and renderView (lines 725-771).                   *)
(***************************************************************************)
\* navigate keeping the selected ids it is not given
navigate_CarryOver(newView, bookId, charId) ==
    qNav' = <<[view |-> newView,
               bookId |-> IF bookId = NoId THEN selectedBookId ELSE bookId,
               charId |-> IF charId = NoId THEN selectedCharacterId ELSE charId]>>

\* navigate(newView, bookId = null, charId = null)
navigate(newView, bookId, charId) ==
    qNav' = <<[view |-> newView, bookId |-> bookId, charId |-> charId]>>

\* Array.prototype.find by id: the first match, or nothing
find(seq, id) ==
    LET hits == {i \in 1..Len(seq) : seq[i].id = id}
    IN  IF hits = {} THEN <<>>
        ELSE <<seq[CHOOSE i \in hits : \A j \in hits : i <= j]>>

\* the character list without the filter on the book
charactersForSelectedBook_All(cs, selB) == cs

\* safeCharacters.filter(c => c.bookId === selectedBookId), line 739
charactersForSelectedBook(cs, selB) == SelectSeq(cs, LAMBDA c : c.bookId = selB)

Element(comp) ==
    [comp |-> comp, filterStatus |-> "", listTitle |-> "", book |-> <<>>,
     characters |-> <<>>, character |-> <<>>, bookId |-> NoId]

BookListEl(filterStatus, listTitle) ==
    [Element("BookList") EXCEPT !.filterStatus = filterStatus,
                                !.listTitle = listTitle]
BookFormEl(existingBook) == [Element("BookForm") EXCEPT !.book = existingBook]
BookDetailEl(book, chars) ==
    [Element("BookDetail") EXCEPT !.book = book, !.characters = chars]
CharacterFormEl(bookId, existingCharacter) ==
    [Element("CharacterForm") EXCEPT !.bookId = bookId,
                                     !.character = existingCharacter]
CharacterDetailEl(character) ==
    [Element("CharacterDetail") EXCEPT !.character = character]

DefaultBookList == BookListEl("", "My Books")

\* renderView without the fallback of the character views
renderView_NoCharacterFallback(v, selB, selC, bs, cs) ==
    LET safeBooks == IF isArray(bs) THEN bs ELSE <<>>
        safeCharacters == IF isArray(cs) THEN cs ELSE <<>>
        selectedBook == find(safeBooks, selB)
        selectedCharacter == find(safeCharacters, selC)
    IN  CASE v = "wishlist" -> BookListEl("To Read", "My Wishlist")
          [] v = "readBooks" -> BookListEl("Read", "Books Read")
          [] v = "addBook" -> BookFormEl(<<>>)
          [] v = "editBook" ->
                IF selectedBook # <<>> THEN BookFormEl(selectedBook)
                ELSE DefaultBookList
          [] v = "viewBook" ->
                IF selectedBook # <<>>
                THEN BookDetailEl(selectedBook,
                                  charactersForSelectedBook(safeCharacters, selB))
                ELSE DefaultBookList
          [] v = "addCharacter" -> CharacterFormEl(selB, <<>>)
          [] v = "editCharacter" -> CharacterFormEl(selB, selectedCharacter)
          [] v = "viewCharacter" -> CharacterDetailEl(selectedCharacter)
          [] OTHER -> DefaultBookList

renderView(v, selB, selC, bs, cs) ==
    LET safeBooks == IF isArray(bs) THEN bs ELSE <<>>
        safeCharacters == IF isArray(cs) THEN cs ELSE <<>>
        selectedBook == find(safeBooks, selB)
        selectedCharacter == find(safeCharacters, selC)
    IN  CASE v = "wishlist" -> BookListEl("To Read", "My Wishlist")
          [] v = "readBooks" -> BookListEl("Read", "Books Read")
          [] v = "addBook" -> BookFormEl(<<>>)
          [] v = "editBook" ->
                IF selectedBook # <<>> THEN BookFormEl(selectedBook)
                ELSE DefaultBookList
          [] v = "viewBook" ->
                IF selectedBook # <<>>
                THEN BookDetailEl(selectedBook,
                                  charactersForSelectedBook(safeCharacters, selB))
                ELSE DefaultBookList
          [] v = "addCharacter" -> CharacterFormEl(selB, <<>>)
          [] v = "editCharacter" ->
                IF selectedCharacter # <<>>
                THEN CharacterFormEl(selB, selectedCharacter)
                ELSE DefaultBookList
          [] v = "viewCharacter" ->
                IF selectedCharacter # <<>>
                THEN CharacterDetailEl(selectedCharacter)
                ELSE DefaultBookList
          [] OTHER -> DefaultBookList

\* a filter keeping the books of every other status
filteredBooks_Others(bs, filterStatus) ==
    LET safeBooks == IF isArray(bs) THEN bs ELSE <<>>
    IN  IF filterStatus # ""
        THEN SelectSeq(safeBooks, LAMBDA b : b.readStatus # filterStatus)
        ELSE safeBooks

\* BookList: the books it lists (lines 155-160)
filteredBooks(bs, filterStatus) ==
    LET safeBooks == IF isArray(bs) THEN bs ELSE <<>>
    IN  IF filterStatus # ""
        THEN SelectSeq(safeBooks, LAMBDA b : b.readStatus = filterStatus)
        ELSE safeBooks

(***************************************************************************)
(* History of the last call.                                               *)
(***************************************************************************)
Called(op, id, input, navArgs) ==
    /\ last' = [op |-> op, id |-> id, input |-> input, nav |-> navArgs]
    /\ prevBooks' = books
    /\ prevCharacters' = characters

\* no render and no effect is pending: the next user event is accepted
Idle ==
    /\ effects = <<>>
    /\ qBooks = <<>>
    /\ qCharacters = <<>>
    /\ qNav = <<>>

\* the last call's updates are committed (its effects may still be pending)
Committed ==
    /\ qBooks = <<>>
    /\ qCharacters = <<>>
    /\ qNav = <<>>
    /\ last.op # "mount"

(***************************************************************************)
(* Effects of DataProvider and the render pass.                            *)
(***************************************************************************)
\* the load effect storing whatever JSON.parse returned
loadBooksUpdates_NoArrayCheck(storedBooks, storedCharacters) ==
    IF Truthy(storedBooks) /\ ParseThrows(storedBooks) THEN <<SetTo(<<>>)>>
    ELSE IF Truthy(storedBooks) THEN <<SetTo(parsedBooks(storedBooks))>>
    ELSE <<SetTo(<<>>)>>

\* what the load effect passes to setBooks / setCharacters (lines 50-75)
loadBooksUpdates(storedBooks, storedCharacters) ==
    LET threwAtBooks == Truthy(storedBooks) /\ ParseThrows(storedBooks)
        threwAtChars == /\ ~threwAtBooks
                        /\ Truthy(storedCharacters)
                        /\ ParseThrows(storedCharacters)
        inTry == IF threwAtBooks THEN <<>>
                 ELSE IF Truthy(storedBooks)
                      THEN <<SetTo(IF isArray(parsedBooks(storedBooks))
                                   THEN parsedBooks(storedBooks) ELSE <<>>)>>
                      ELSE <<SetTo(<<>>)>>
        inCatch == IF threwAtBooks \/ threwAtChars THEN <<SetTo(<<>>)>>
                   ELSE <<>>
    IN  inTry \o inCatch

loadCharactersUpdates(storedBooks, storedCharacters) ==
    LET threwAtBooks == Truthy(storedBooks) /\ ParseThrows(storedBooks)
        threwAtChars == /\ ~threwAtBooks
                        /\ Truthy(storedCharacters)
                        /\ ParseThrows(storedCharacters)
        inTry == IF threwAtBooks \/ threwAtChars THEN <<>>
                 ELSE IF Truthy(storedCharacters)
                      THEN <<SetTo(IF isArray(parsedChars(storedCharacters))
                                   THEN parsedChars(storedCharacters) ELSE <<>>)>>
                      ELSE <<SetTo(<<>>)>>
        inCatch == IF threwAtBooks \/ threwAtChars THEN <<SetTo(<<>>)>>
                   ELSE <<>>
    IN  inTry \o inCatch

LoadEffect ==
    /\ effects # <<>>
    /\ Head(effects) = "load"
    /\ qBooks' = qBooks \o loadBooksUpdates(lsBooks, lsCharacters)
    /\ qCharacters' = qCharacters \o loadCharactersUpdates(lsBooks, lsCharacters)
    /\ effects' = Tail(effects)
    /\ Called("load", NoId, <<lsBooks, lsCharacters>>, <<>>)
    /\ UNCHANGED <<books, characters, lsBooks, lsCharacters, view,
                   selectedBookId, selectedCharacterId, shown, qNav, now>>

\* a books effect that does not write an empty collection
SaveBooksEffect_SkipsEmpty ==
    /\ effects # <<>>
    /\ Head(effects) = "saveBooks"
    /\ lsBooks' = IF isArray(books) /\ books # <<>> THEN stringifyBooks(books)
                  ELSE lsBooks
    /\ effects' = Tail(effects)
    /\ UNCHANGED <<books, characters, lsCharacters, view, selectedBookId,
                   selectedCharacterId, shown, qBooks, qCharacters, qNav, now,
                   last, prevBooks, prevCharacters>>

\* lines 78-83
SaveBooksEffect ==
    /\ effects # <<>>
    /\ Head(effects) = "saveBooks"
    /\ lsBooks' = IF isArray(books) THEN stringifyBooks(books) ELSE lsBooks
    /\ effects' = Tail(effects)
    /\ UNCHANGED <<books, characters, lsCharacters, view, selectedBookId,
                   selectedCharacterId, shown, qBooks, qCharacters, qNav, now,
                   last, prevBooks, prevCharacters>>

\* a characters effect that runs without writing the slot
SaveCharactersEffect_Skipped ==
    /\ effects # <<>>
    /\ Head(effects) = "saveCharacters"
    /\ effects' = Tail(effects)
    /\ UNCHANGED <<books, characters, lsBooks, lsCharacters, view,
                   selectedBookId, selectedCharacterId, shown, qBooks,
                   qCharacters, qNav, now, last, prevBooks, prevCharacters>>

\* lines 86-90
SaveCharactersEffect ==
    /\ effects # <<>>
    /\ Head(effects) = "saveCharacters"
    /\ lsCharacters' = IF isArray(characters) THEN stringifyCharacters(characters)
                       ELSE lsCharacters
    /\ effects' = Tail(effects)
    /\ UNCHANGED <<books, characters, lsBooks, view, selectedBookId,
                   selectedCharacterId, shown, qBooks, qCharacters, qNav, now,
                   last, prevBooks, prevCharacters>>

\* a commit that runs one save effect at most
scheduledEffects_FirstOnly(qb, qc) ==
    IF qb # <<>> THEN <<"saveBooks">>
    ELSE IF qc # <<>> THEN <<"saveCharacters">> ELSE <<>>

\* the effects a commit schedules: those whose dependency was set
scheduledEffects(qb, qc) ==
    (IF qb # <<>> THEN <<"saveBooks">> ELSE <<>>)
        \o (IF qc # <<>> THEN <<"saveCharacters">> ELSE <<>>)

\* React re-renders: the queued updates are applied, the new state is
\* committed, and renderView runs on it
Render ==
    /\ effects = <<>>
    /\ ~Idle
    /\ books' = ApplyQueue(qBooks, books, now)
    /\ characters' = ApplyQueue(qCharacters, characters, now)
    /\ view' = IF qNav # <<>> THEN qNav[1].view ELSE view
    /\ selectedBookId' = IF qNav # <<>> THEN qNav[1].bookId ELSE selectedBookId
    /\ selectedCharacterId' =
           IF qNav # <<>> THEN qNav[1].charId ELSE selectedCharacterId
    /\ shown' = renderView(view', selectedBookId', selectedCharacterId',
                           books', characters')
    /\ effects' = scheduledEffects(qBooks, qCharacters)
    /\ qBooks' = <<>>
    /\ qCharacters' = <<>>
    /\ qNav' = <<>>
    /\ UNCHANGED <<lsBooks, lsCharacters, now, last, prevBooks, prevCharacters>>

\* time passes
Tick ==
    /\ now < MaxClock
    /\ now' = now + 1
    /\ UNCHANGED <<books, characters, lsBooks, lsCharacters, view,
                   selectedBookId, selectedCharacterId, shown, qBooks,
                   qCharacters, qNav, effects, last, prevBooks, prevCharacters>>

(***************************************************************************)
(* User events.  A handler runs to completion: it queues the store update  *)
(* and the navigation it calls for, and changes nothing else.              *)
(***************************************************************************)
HandlerFrame ==
    UNCHANGED <<books, characters, lsBooks, lsCharacters, view, selectedBookId,
                selectedCharacterId, shown, effects, now>>

\* a navigation that also sets the books state anew
NavigateOnly_SetsBooks(v, b, c) ==
    /\ navigate(v, b, c)
    /\ qBooks' = Append(qBooks, SetTo(books))
    /\ UNCHANGED qCharacters
    /\ Called("navigate", NoId, <<>>, <<v, b, c>>)
    /\ HandlerFrame

\* a handler that only calls navigate(v, b, c)
NavigateOnly(v, b, c) ==
    /\ navigate(v, b, c)
    /\ UNCHANGED <<qBooks, qCharacters>>
    /\ Called("navigate", NoId, <<>>, <<v, b, c>>)
    /\ HandlerFrame

\* a handler that returns after an alert, before any call (lines 321-324, 583-591)
Rejected(input) ==
    /\ UNCHANGED <<qBooks, qCharacters, qNav>>
    /\ Called("rejected", NoId, <<input>>, <<>>)
    /\ HandlerFrame

\* header buttons, lines 781-805
HeaderNavigate ==
    /\ Idle
    /\ \E v \in {"books", "wishlist", "readBooks", "addBook"} :
           NavigateOnly(v, NoId, NoId)

\* BookList "View Details", line 196
BookListViewDetails ==
    /\ Idle
    /\ shown.comp = "BookList"
    /\ LET listed == filteredBooks(books, shown.filterStatus)
       IN  \E i \in 1..Len(listed) : NavigateOnly("viewBook", listed[i].id, NoId)

\* BookList "Delete", confirmed, lines 202-207
BookListDelete ==
    /\ Idle
    /\ shown.comp = "BookList"
    /\ LET listed == filteredBooks(books, shown.filterStatus)
       IN  \E i \in 1..Len(listed) :
               /\ deleteBook(listed[i].id)
               /\ UNCHANGED qNav
               /\ Called("deleteBook", listed[i].id, <<>>, <<>>)
               /\ HandlerFrame

\* BookDetail "Back to Library", line 243
BookDetailBack ==
    /\ Idle
    /\ shown.comp = "BookDetail"
    /\ NavigateOnly("books", NoId, NoId)

\* BookDetail "Edit Book Info", line 262
BookDetailEdit ==
    /\ Idle
    /\ shown.comp = "BookDetail"
    /\ NavigateOnly("editBook", shown.book[1].id, NoId)

\* a delete that stays on the page of the deleted book
handleDeleteBook_StaysOnBook ==
    /\ Idle
    /\ shown.comp = "BookDetail"
    /\ deleteBook(shown.book[1].id)
    /\ UNCHANGED qNav
    /\ Called("deleteBook", shown.book[1].id, <<>>, <<>>)
    /\ HandlerFrame

\* BookDetail.handleDeleteBook, confirmed, lines 229-234
handleDeleteBook ==
    /\ Idle
    /\ shown.comp = "BookDetail"
    /\ deleteBook(shown.book[1].id)
    /\ navigate("books", NoId, NoId)
    /\ Called("deleteBook", shown.book[1].id, <<>>, <<"books", NoId, NoId>>)
    /\ HandlerFrame

\* BookDetail "+ Add Character", line 288
BookDetailAddCharacter ==
    /\ Idle
    /\ shown.comp = "BookDetail"
    /\ NavigateOnly("addCharacter", shown.book[1].id, NoId)

\* CharacterCard click, line 445
CharacterCardClick ==
    /\ Idle
    /\ shown.comp = "BookDetail"
    /\ \E i \in 1..Len(shown.characters) :
           NavigateOnly("viewCharacter", shown.characters[i].bookId,
                        shown.characters[i].id)

\* CharacterCard.handleDelete, confirmed, lines 429-434
handleDelete ==
    /\ Idle
    /\ shown.comp = "BookDetail"
    /\ \E i \in 1..Len(shown.characters) :
           /\ deleteCharacter(shown.characters[i].id)
           /\ UNCHANGED qNav
           /\ Called("deleteCharacter", shown.characters[i].id, <<>>, <<>>)
           /\ HandlerFrame

\* a check that passes when either field is filled in
bookFormValid_Either(title, author) == title # "" \/ author # ""

\* `if (!title || !author)` of BookForm.handleSubmit
bookFormValid(title, author) == title # "" /\ author # ""

\* BookForm.handleSubmit, lines 319-334
BookFormSubmit ==
    /\ Idle
    /\ shown.comp = "BookForm"
    /\ \E title \in Titles, author \in Authors, readStatus \in Statuses :
         LET existingBook == shown.book
             bookData == [id |-> IF existingBook # <<>> THEN existingBook[1].id
                                 ELSE NoId,
                          title |-> title, author |-> author,
                          coverImage |-> "", readStatus |-> readStatus,
                          notes |-> ""]
         IN  IF ~bookFormValid(title, author) THEN Rejected(bookData)
             ELSE IF existingBook # <<>>
             THEN /\ updateBook(bookData)
                  /\ navigate("viewBook", existingBook[1].id, NoId)
                  /\ Called("updateBook", bookData.id, <<bookData>>,
                            <<"viewBook", existingBook[1].id, NoId>>)
                  /\ HandlerFrame
             ELSE /\ Len(books) < MaxBooks
                  /\ addBook(bookData)
                  /\ navigate("books", NoId, NoId)
                  /\ Called("addBook", addBookReturn, <<bookData>>,
                            <<"books", NoId, NoId>>)
                  /\ HandlerFrame

\* BookForm "Cancel", line 404
BookFormCancel ==
    /\ Idle
    /\ shown.comp = "BookForm"
    /\ IF shown.book # <<>>
       THEN NavigateOnly("viewBook", shown.book[1].id, NoId)
       ELSE NavigateOnly("books", NoId, NoId)

\* CharacterDetail back button, lines 492-502
CharacterDetailBack ==
    /\ Idle
    /\ shown.comp = "CharacterDetail"
    /\ LET parentBook == IF isArray(books)
                         THEN find(books, shown.character[1].bookId) ELSE <<>>
       IN  IF parentBook # <<>>
           THEN NavigateOnly("viewBook", parentBook[1].id, NoId)
           ELSE NavigateOnly("books", NoId, NoId)

\* CharacterDetail "Edit Character", line 518
CharacterDetailEdit ==
    /\ Idle
    /\ shown.comp = "CharacterDetail"
    /\ NavigateOnly("editCharacter", shown.character[1].bookId,
                    shown.character[1].id)

\* CharacterDetail.handleDeleteCharacter, confirmed, lines 478-488
handleDeleteCharacter ==
    /\ Idle
    /\ shown.comp = "CharacterDetail"
    /\ LET character == shown.character[1]
           target == IF character.bookId # NoId
                     THEN <<"viewBook", character.bookId, NoId>>
                     ELSE <<"books", NoId, NoId>>
       IN  /\ deleteCharacter(character.id)
           /\ navigate(target[1], target[2], target[3])
           /\ Called("deleteCharacter", character.id, <<>>, target)
           /\ HandlerFrame

\* the submit button of CharacterForm is enabled, line 706
characterSubmitEnabled(parentBook, existingCharacter) ==
    ~(parentBook = <<>> /\ existingCharacter = <<>>)

\* the name check alone
characterFormValid_NameOnly(name, bookId) == name # ""

\* the two checks of CharacterForm.handleSubmit, lines 583-591
characterFormValid(name, bookId) == name # "" /\ bookId # NoId

\* CharacterForm.handleSubmit, lines 581-611
CharacterFormSubmit ==
    /\ Idle
    /\ shown.comp = "CharacterForm"
    /\ characterSubmitEnabled(IF isArray(books) THEN find(books, shown.bookId)
                              ELSE <<>>, shown.character)
    /\ \E name \in Names :
         LET existingCharacter == shown.character
             bookId == shown.bookId
             characterData ==
                 [id |-> IF existingCharacter # <<>>
                         THEN existingCharacter[1].id ELSE NoId,
                  name |-> name, image |-> "", origin |-> "", family |-> "",
                  summary |-> "", backstory |-> "", bookId |-> bookId]
         IN  IF ~characterFormValid(name, bookId) THEN Rejected(characterData)
             ELSE IF existingCharacter # <<>>
             THEN /\ updateCharacter(characterData)
                  /\ navigate("viewCharacter", bookId, existingCharacter[1].id)
                  /\ Called("updateCharacter", characterData.id,
                            <<characterData>>,
                            <<"viewCharacter", bookId, existingCharacter[1].id>>)
                  /\ HandlerFrame
             ELSE /\ Len(characters) < MaxChars
                  /\ addCharacter(characterData)
                  /\ navigate("viewBook", bookId, NoId)
                  /\ Called("addCharacter", NoId, <<characterData>>,
                            <<"viewBook", bookId, NoId>>)
                  /\ HandlerFrame

\* CharacterForm "Cancel", line 698
CharacterFormCancel ==
    /\ Idle
    /\ shown.comp = "CharacterForm"
    /\ IF shown.character # <<>>
       THEN NavigateOnly("viewCharacter", shown.bookId, shown.character[1].id)
       ELSE NavigateOnly("viewBook", shown.bookId, NoId)

(***************************************************************************)
(* The application: mounted over any content of the two storage slots.     *)
(***************************************************************************)
BooksPayloads == {Absent, BadText, NonList, stringifyBooks(<<StoredBook>>)}
CharactersPayloads ==
    {Absent, BadText, NonList, stringifyCharacters(<<StoredCharacter>>)}

Init ==
    /\ books = <<>>
    /\ characters = <<>>
    /\ lsBooks \in BooksPayloads
    /\ lsCharacters \in CharactersPayloads
    /\ view = "books"
    /\ selectedBookId = NoId
    /\ selectedCharacterId = NoId
    /\ shown = renderView("books", NoId, NoId, <<>>, <<>>)
    /\ qBooks = <<>>
    /\ qCharacters = <<>>
    /\ qNav = <<>>
    /\ effects = <<"load", "saveBooks", "saveCharacters">>
    /\ now = FirstTick
    /\ last = [op |-> "mount", id |-> NoId, input |-> <<>>, nav |-> <<>>]
    /\ prevBooks = <<>>
    /\ prevCharacters = <<>>

Next ==
    \/ LoadEffect
    \/ SaveBooksEffect
    \/ SaveCharactersEffect
    \/ Render
    \/ Tick
    \/ HeaderNavigate
    \/ BookListViewDetails
    \/ BookListDelete
    \/ BookDetailBack
    \/ BookDetailEdit
    \/ handleDeleteBook
    \/ BookDetailAddCharacter
    \/ CharacterCardClick
    \/ handleDelete
    \/ BookFormSubmit
    \/ BookFormCancel
    \/ CharacterDetailBack
    \/ CharacterDetailEdit
    \/ handleDeleteCharacter
    \/ CharacterFormSubmit
    \/ CharacterFormCancel

Spec == Init /\ [][Next]_vars

\* React runs the render a state update asks for and the effects the render
\* scheduled by itself, without any user event
SpecFair ==
    /\ Spec
    /\ WF_vars(LoadEffect)
    /\ WF_vars(Render)
    /\ WF_vars(SaveBooksEffect)
    /\ WF_vars(SaveCharactersEffect)

(***************************************************************************)
(* renderView and navigate over any navigation state and any store         *)
(* contents: App is rendered with arbitrary state, and navigate is called  *)
(* with arbitrary arguments.                                               *)
(***************************************************************************)
Views == {"books", "wishlist", "readBooks", "addBook", "editBook", "viewBook",
          "addCharacter", "editCharacter", "viewCharacter"}

BookAt(i) == [StoredBook EXCEPT !.id = i]
CharacterAt(i, b) == [StoredCharacter EXCEPT !.id = i, !.bookId = b]

AnyIds == 0..MaxBooks
AnyBooks == {[j \in 1..n |-> BookAt(j)] : n \in 0..MaxBooks}
AnyCharacters ==
    {[j \in 1..n |-> CharacterAt(j, MaxBooks + 1 - j)] : n \in 0..MaxChars}

InitRender ==
    /\ books \in AnyBooks
    /\ characters \in AnyCharacters
    /\ lsBooks = stringifyBooks(books)
    /\ lsCharacters = stringifyCharacters(characters)
    /\ view \in Views
    /\ selectedBookId \in AnyIds
    /\ selectedCharacterId \in AnyIds
    /\ shown = renderView(view, selectedBookId, selectedCharacterId, books,
                          characters)
    /\ qBooks = <<>>
    /\ qCharacters = <<>>
    /\ qNav = <<>>
    /\ effects = <<>>
    /\ now = FirstTick
    /\ last = [op |-> "props", id |-> NoId, input |-> <<>>, nav |-> <<>>]
    /\ prevBooks = books
    /\ prevCharacters = characters

NavigateAny ==
    /\ Idle
    /\ \E v \in Views, b \in AnyIds, c \in AnyIds : NavigateOnly(v, b, c)

NextRender ==
    \/ NavigateAny
    \/ Render

SpecRender == InitRender /\ [][NextRender]_vars

(***************************************************************************)
(* The user interface over any navigation state: App shows whatever the    *)
(* navigation state selects, a form with any props included, and the user  *)
(* goes on from there.                                                     *)
(***************************************************************************)
NextForms ==
    \/ SaveBooksEffect
    \/ SaveCharactersEffect
    \/ Render
    \/ Tick
    \/ HeaderNavigate
    \/ BookListViewDetails
    \/ BookListDelete
    \/ BookDetailBack
    \/ BookDetailEdit
    \/ handleDeleteBook
    \/ BookDetailAddCharacter
    \/ CharacterCardClick
    \/ handleDelete
    \/ BookFormSubmit
    \/ BookFormCancel
    \/ CharacterDetailBack
    \/ CharacterDetailEdit
    \/ handleDeleteCharacter
    \/ CharacterFormSubmit
    \/ CharacterFormCancel

SpecForms == InitRender /\ [][NextForms]_vars

(***************************************************************************)
(* The store used directly: any caller holding the context value calls    *)
(* the six store functions with arguments of its choice, on any store      *)
(* contents.  The store itself checks none of them.                        *)
(***************************************************************************)
ArgIds == 1..MaxClock

BookInputs ==
    {[BookAt(i) EXCEPT !.readStatus = s] : i \in ArgIds, s \in Statuses}
CharacterInputs ==
    {[CharacterAt(i, b) EXCEPT !.name = "Jessica"] :
         i \in ArgIds, b \in 1..MaxBooks}

\* a caller of one store function
StoreCall(op, id, input) ==
    /\ UNCHANGED qNav
    /\ Called(op, id, input, <<>>)
    /\ HandlerFrame

CallAddBook ==
    /\ Idle
    /\ Len(books) < MaxBooks
    /\ \E data \in BookInputs :
           addBook(data) /\ StoreCall("addBook", addBookReturn, <<data>>)

CallUpdateBook ==
    /\ Idle
    /\ \E data \in BookInputs :
           updateBook(data) /\ StoreCall("updateBook", data.id, <<data>>)

CallDeleteBook ==
    /\ Idle
    /\ \E id \in ArgIds : deleteBook(id) /\ StoreCall("deleteBook", id, <<>>)

CallAddCharacter ==
    /\ Idle
    /\ Len(characters) < MaxChars
    /\ \E data \in CharacterInputs :
           addCharacter(data) /\ StoreCall("addCharacter", NoId, <<data>>)

CallUpdateCharacter ==
    /\ Idle
    /\ \E data \in CharacterInputs :
           /\ updateCharacter(data)
           /\ StoreCall("updateCharacter", data.id, <<data>>)

CallDeleteCharacter ==
    /\ Idle
    /\ \E id \in ArgIds :
           deleteCharacter(id) /\ StoreCall("deleteCharacter", id, <<>>)

InitStore ==
    /\ books \in AnyBooks
    /\ characters \in AnyCharacters
    /\ lsBooks = stringifyBooks(books)
    /\ lsCharacters = stringifyCharacters(characters)
    /\ view = "books"
    /\ selectedBookId = NoId
    /\ selectedCharacterId = NoId
    /\ shown = renderView(view, selectedBookId, selectedCharacterId, books,
                          characters)
    /\ qBooks = <<>>
    /\ qCharacters = <<>>
    /\ qNav = <<>>
    /\ effects = <<>>
    /\ now = FirstTick
    /\ last = [op |-> "props", id |-> NoId, input |-> <<>>, nav |-> <<>>]
    /\ prevBooks = books
    /\ prevCharacters = characters

NextStore ==
    \/ CallAddBook
    \/ CallUpdateBook
    \/ CallDeleteBook
    \/ CallAddCharacter
    \/ CallUpdateCharacter
    \/ CallDeleteCharacter
    \/ Render
    \/ SaveBooksEffect
    \/ SaveCharactersEffect
    \/ Tick

SpecStore == InitStore /\ [][NextStore]_vars

\* a caller of navigate: to the list, or to the page of a book
CallNavigate ==
    /\ Idle
    /\ \/ NavigateOnly("books", NoId, NoId)
       \/ \E b \in 1..MaxBooks : NavigateOnly("viewBook", b, NoId)

\* the store functions and navigate, each called on its own
NextCalls ==
    \/ CallAddBook
    \/ CallUpdateBook
    \/ CallDeleteBook
    \/ CallAddCharacter
    \/ CallUpdateCharacter
    \/ CallDeleteCharacter
    \/ CallNavigate
    \/ Render
    \/ SaveBooksEffect
    \/ SaveCharactersEffect
    \/ Tick

SpecCalls == InitStore /\ [][NextCalls]_vars

(***************************************************************************)
(* The context.  App reads the store through useData; a tree may render   *)
(* App inside a DataProvider (WrappedApp) or without one.                  *)
(***************************************************************************)
\* createContext() has no default value (line 42)
Undefined == [undefined |-> TRUE]

\* the data of the value the provider passes down (lines 125-128)
ProviderValue(bs, cs) == [books |-> bs, characters |-> cs]

\* useContext(DataContext)
useContext(inProvider, bs, cs) ==
    IF inProvider THEN ProviderValue(bs, cs) ELSE Undefined

\* throw new Error(...)
Thrown(message) == [thrown |-> message]
IsThrown(result) == "thrown" \in DOMAIN result

\* a hook that hands out an empty store when there is no provider
useData_Default(context) ==
    IF context = Undefined THEN ProviderValue(<<>>, <<>>) ELSE context

\* lines 135-142
useData(context) ==
    IF context = Undefined
    THEN Thrown("useData must be used within a DataProvider")
    ELSE context

\* what is on screen after an error thrown while rendering: nothing of App
UncaughtError == Element("UncaughtError")

\* App rendered with the context it finds (lines 731-771)
RenderApp(inProvider) ==
    LET context == useContext(inProvider, books, characters)
        data == useData(context)
    IN  /\ shown' = IF IsThrown(data) THEN UncaughtError
                     ELSE renderView(view, selectedBookId, selectedCharacterId,
                                     data.books, data.characters)
        /\ Called("useData", NoId, <<context>>, <<>>)
        /\ UNCHANGED <<books, characters, lsBooks, lsCharacters, view,
                       selectedBookId, selectedCharacterId, qBooks,
                       qCharacters, qNav, effects, now>>

\* <DataProvider><App /></DataProvider>, lines 823-833
AppInProvider ==
    /\ Idle
    /\ RenderApp(TRUE)

\* <App /> with no DataProvider above it
AppOutsideProvider ==
    /\ Idle
    /\ RenderApp(FALSE)

NextContext ==
    \/ AppInProvider
    \/ AppOutsideProvider

SpecContext == InitRender /\ [][NextContext]_vars

(***************************************************************************)
(* Properties.                                                             *)
(***************************************************************************)
Ids(seq) == {seq[i].id : i \in 1..Len(seq)}
Has(seq, r) == \E i \in 1..Len(seq) : seq[i] = r
RefIntact(bs, cs) == \A i \in 1..Len(cs) : cs[i].bookId \in Ids(bs)
DistinctIds(seq) ==
    \A i, j \in 1..Len(seq) : i # j => seq[i].id # seq[j].id

\* C1: after deleteBook(B) is committed, no book has id B and no character
\* has bookId B, while every other book and every character of another book
\* that was there before is still there.
C1_DeleteBookCascade ==
    (Committed /\ last.op = "deleteBook") =>
        /\ \A i \in 1..Len(books) : books[i].id # last.id
        /\ \A i \in 1..Len(characters) : characters[i].bookId # last.id
        /\ \A i \in 1..Len(prevBooks) :
               prevBooks[i].id # last.id => Has(books, prevBooks[i])
        /\ \A i \in 1..Len(prevCharacters) :
               prevCharacters[i].bookId # last.id
                   => Has(characters, prevCharacters[i])

\* a book with a character was deleted while another book kept its character
C1_Witness ==
    /\ Committed
    /\ last.op = "deleteBook"
    /\ \E i \in 1..Len(prevCharacters) : prevCharacters[i].bookId = last.id
    /\ Len(prevBooks) = 2
    /\ Len(books) = 1
    /\ Len(characters) = 1

\* C2: no step of a user action turns a referentially intact store into one
\* where some character's bookId is the id of no book.
C2_ReferentialIntegrity ==
    [][(last.op # "load" /\ RefIntact(books, characters))
           => RefIntact(books', characters')]_vars

\* a character was added to the second of two books, and the store is intact
C2_Witness ==
    /\ Idle
    /\ last.op = "addCharacter"
    /\ Len(books) = 2
    /\ Len(characters) = 2
    /\ characters[2].bookId = books[2].id
    /\ RefIntact(books, characters)

\* C3: the ids of the books are pairwise distinct, and so are the ids of the
\* characters.
C3_UniqueIds == DistinctIds(books) /\ DistinctIds(characters)

MutationOps == {"addBook", "updateBook", "deleteBook", "addCharacter",
                "updateCharacter", "deleteCharacter"}
BookOps == {"addBook", "updateBook", "deleteBook"}
CharacterOps == {"deleteBook", "addCharacter", "updateCharacter",
                 "deleteCharacter"}

\* C4 (as claimed): once a mutation is committed in memory, the storage slot
\* of each collection it changed holds the new collection.
C4_WriteThrough ==
    (Committed /\ last.op \in MutationOps) =>
        /\ last.op \in BookOps => lsBooks = stringifyBooks(books)
        /\ last.op \in CharacterOps =>
               lsCharacters = stringifyCharacters(characters)

\* C4 (amended): once the render and the save effects a mutation triggered
\* have run, the slot of each collection it changed holds the new collection.
C4_PersistedAfterEffects ==
    (Idle /\ last.op \in MutationOps) =>
        /\ last.op \in BookOps => lsBooks = stringifyBooks(books)
        /\ last.op \in CharacterOps =>
               lsCharacters = stringifyCharacters(characters)

\* a deleteBook that removed a character has been written to both slots
C4_Witness ==
    /\ Idle
    /\ last.op = "deleteBook"
    /\ prevCharacters # characters
    /\ prevBooks # books
    /\ lsBooks = stringifyBooks(books)
    /\ lsCharacters = stringifyCharacters(characters)

\* C5: when the load has been committed, a malformed books payload leaves a
\* valid characters payload loaded, and a malformed characters payload
\* leaves a valid books payload loaded.
C5_MalformedIsolated ==
    (Committed /\ last.op = "load") =>
        LET storedBooks == last.input[1]
            storedCharacters == last.input[2]
        IN  /\ (ParseThrows(storedBooks) /\ storedCharacters.kind = "list")
                   => characters = parsedChars(storedCharacters)
            /\ (ParseThrows(storedCharacters) /\ storedBooks.kind = "list")
                   => books = parsedBooks(storedBooks)

\* the payload of a slot is absent, unparseable or not a list
Unusable(slot) == slot.kind \in {"absent", "bad", "nonlist"}

\* C6: both collections are always lists, and once the load is committed a
\* collection whose payload was absent, unparseable or not a list is empty.
C6_DegradeToEmpty ==
    /\ isArray(books)
    /\ isArray(characters)
    /\ (Committed /\ last.op = "load") =>
           /\ Unusable(last.input[1]) => books = <<>>
           /\ Unusable(last.input[2]) => characters = <<>>

\* the books payload was not a list: books is empty, the characters loaded
C6_Witness ==
    /\ Committed
    /\ last.op = "load"
    /\ last.input[1].kind = "nonlist"
    /\ books = <<>>
    /\ characters = <<StoredCharacter>>

\* C7: the default books list is shown when the view needs a book or a
\* character that the selection does not resolve, and the requested view is
\* shown, on the resolved entity, when it does.
C7_FallbackToBooks ==
    LET selectedBook == find(books, selectedBookId)
        selectedCharacter == find(characters, selectedCharacterId)
    IN  /\ (view \in {"viewBook", "editBook"} /\ selectedBook = <<>>)
               => shown = DefaultBookList
        /\ (view \in {"viewCharacter", "editCharacter"}
                /\ selectedCharacter = <<>>) => shown = DefaultBookList
        /\ (view = "viewBook" /\ selectedBook # <<>>)
               => (shown.comp = "BookDetail" /\ shown.book = selectedBook)
        /\ (view = "editBook" /\ selectedBook # <<>>)
               => (shown.comp = "BookForm" /\ shown.book = selectedBook)
        /\ (view = "viewCharacter" /\ selectedCharacter # <<>>)
               => (shown.comp = "CharacterDetail"
                   /\ shown.character = selectedCharacter)
        /\ (view = "editCharacter" /\ selectedCharacter # <<>>)
               => (shown.comp = "CharacterForm"
                   /\ shown.character = selectedCharacter)

\* navigate('viewCharacter', ..) to a character that does not exist, with
\* books and characters in the store, ended on the default list
C7_Witness ==
    /\ Committed
    /\ last.op = "navigate"
    /\ view = "viewCharacter"
    /\ characters # <<>>
    /\ find(characters, selectedCharacterId) = <<>>
    /\ shown = DefaultBookList

\* C8: the add-character view shows the default books list when the selected
\* book id is unset or matches no book.
C8_AddCharacterFallback ==
    (view = "addCharacter" /\ find(books, selectedBookId) = <<>>)
        => shown = DefaultBookList

\* C9: once a call navigate(v, b, c) is committed, the view is v, the
\* selected book id is b and the selected character id is c, none being a
\* value of the state before.
C9_NavigateUnconditional ==
    (Committed /\ last.nav # <<>>) =>
        /\ view = last.nav[1]
        /\ selectedBookId = last.nav[2]
        /\ selectedCharacterId = last.nav[3]

\* navigate was called without ids and both selections are unset
C9_Witness ==
    /\ Committed
    /\ last.op = "navigate"
    /\ last.nav = <<"wishlist", NoId, NoId>>
    /\ view = "wishlist"
    /\ selectedBookId = NoId
    /\ selectedCharacterId = NoId

\* C10: after addBook(data) the collection is one longer, the lookup by the
\* value addBook returned finds a book with the fields of data, and its id
\* is the id of no book that was there before.
C10_AddBookLookup ==
    (Committed /\ last.op = "addBook") =>
        LET data == last.input[1]
            found == find(books, last.id)
        IN  /\ Len(books) = Len(prevBooks) + 1
            /\ found # <<>>
            /\ found[1].title = data.title
            /\ found[1].author = data.author
            /\ found[1].coverImage = data.coverImage
            /\ found[1].readStatus = data.readStatus
            /\ found[1].notes = data.notes
            /\ found[1].id \notin Ids(prevBooks)

\* C11: updateBook(data) with an id no book has, and updateCharacter(data)
\* with an id no character has, leave both collections as they were.
C11_UpdateMissingIsNoOp ==
    /\ (Committed /\ last.op = "updateBook" /\ last.id \notin Ids(prevBooks))
           => (books = prevBooks /\ characters = prevCharacters)
    /\ (Committed /\ last.op = "updateCharacter"
            /\ last.id \notin Ids(prevCharacters))
           => (books = prevBooks /\ characters = prevCharacters)

\* updateCharacter was called with an id that no character of a non-empty
\* store has
C11_Witness ==
    /\ Committed
    /\ last.op = "updateCharacter"
    /\ last.id \notin Ids(prevCharacters)
    /\ Len(prevCharacters) = 2
    /\ Len(prevBooks) = 2
    /\ characters = prevCharacters

\* C12: updateBook(data) with the id of a book replaces that one book where
\* it stands: the length is the same, the book at that position is data,
\* with the same id, every other book is as before, and so are the
\* characters.
C12_UpdateBookInPlace ==
    (Committed /\ last.op = "updateBook" /\ last.id \in Ids(prevBooks)) =>
        /\ Len(books) = Len(prevBooks)
        /\ characters = prevCharacters
        /\ \E p \in 1..Len(prevBooks) :
               /\ prevBooks[p].id = last.id
               /\ books[p] = last.input[1]
               /\ books[p].id = prevBooks[p].id
               /\ \A i \in 1..Len(prevBooks) :
                      i # p => books[i] = prevBooks[i]

\* the position of the record find returns
FirstAt(seq, id) ==
    CHOOSE i \in 1..Len(seq) :
        seq[i].id = id /\ \A j \in 1..Len(seq) : seq[j].id = id => i <= j

\* C13: after the edit-character form of character c is submitted, the
\* record stored in c's place has the id and the bookId c had.
C13_EditKeepsIdAndBook ==
    (Committed /\ last.op = "updateCharacter"
         /\ last.id \in Ids(prevCharacters)) =>
        LET p == FirstAt(prevCharacters, last.id)
        IN  /\ Len(characters) = Len(prevCharacters)
            /\ characters[p].id = prevCharacters[p].id
            /\ characters[p].bookId = prevCharacters[p].bookId

\* the edit form of the stored character was submitted with another name
C13_Witness ==
    /\ Committed
    /\ last.op = "updateCharacter"
    /\ Has(prevCharacters, StoredCharacter)
    /\ Has(characters, [StoredCharacter EXCEPT !.name = "Jessica"])

RECURSIVE IsSubseq(_, _)
\* a is b with some elements left out
IsSubseq(a, b) ==
    IF a = <<>> THEN TRUE
    ELSE IF b = <<>> THEN FALSE
    ELSE IF Head(a) = Head(b) THEN IsSubseq(Tail(a), Tail(b))
    ELSE IsSubseq(a, Tail(b))

\* what C14 says of one collection after the operation op
KeepsOrder(op, before, after) ==
    CASE op \in {"addBook", "addCharacter"} ->
             /\ Len(after) = Len(before) + 1
             /\ SubSeq(after, 1, Len(before)) = before
      [] op \in {"updateBook", "updateCharacter"} ->
             /\ Len(after) = Len(before)
             /\ \A i \in 1..Len(before) : after[i].id = before[i].id
      [] OTHER -> IsSubseq(after, before)

\* C14: an added record comes after all the records there were, an update
\* keeps every record at its position, a delete keeps the order of the
\* records that remain, and the unfiltered book list shows the books in the
\* order of the collection.
C14_InsertionOrder ==
    /\ (shown.comp = "BookList" /\ shown.filterStatus = "")
           => filteredBooks(books, shown.filterStatus) = books
    /\ (Committed /\ last.op \in BookOps) =>
           KeepsOrder(last.op, prevBooks, books)
    /\ (Committed /\ last.op \in CharacterOps) =>
           KeepsOrder(IF last.op = "deleteBook" THEN "deleteCharacter"
                      ELSE last.op, prevCharacters, characters)
    /\ (Committed /\ last.op \in MutationOps \ BookOps) => books = prevBooks
    /\ (Committed /\ last.op \in MutationOps \ CharacterOps)
           => characters = prevCharacters

\* a book was added to a store that had one
C14_Witness ==
    /\ Committed
    /\ last.op = "addBook"
    /\ Len(prevBooks) = 1
    /\ Len(books) = 2
    /\ books[1] = prevBooks[1]
    /\ books[2].readStatus = last.input[1].readStatus

\* both slots hold a list, with no book of id B and no character of book B
PersistedWithout(B) ==
    /\ lsBooks.kind = "list"
    /\ B \notin Ids(parsedBooks(lsBooks))
    /\ lsCharacters.kind = "list"
    /\ \A i \in 1..Len(lsCharacters.items) :
           parsedChars(lsCharacters)[i].bookId # B

\* C15: a deleteBook(B) call is followed, with no user action in between,
\* by a state in which its effects have run, and in every such state the
\* persisted books hold no book with id B and the persisted characters hold
\* no character with bookId B.
C15_DeleteBookPersists ==
    /\ []((Idle /\ last.op = "deleteBook") => PersistedWithout(last.id))
    /\ \A B \in ArgIds :
           (last.op = "deleteBook" /\ last.id = B)
               ~> (Idle /\ last.op = "deleteBook" /\ last.id = B
                       /\ PersistedWithout(B))

\* the effects of a deleteBook(B) have run, on a store whose slots held
\* the book B and a character of it
C15_Witness ==
    /\ Idle
    /\ last.op = "deleteBook"
    /\ last.id \in Ids(prevBooks)
    /\ \E i \in 1..Len(prevCharacters) : prevCharacters[i].bookId = last.id
    /\ PersistedWithout(last.id)

\* after is before with exactly the records that Drop holds of left out
RemovedExactly(before, after, Drop(_)) ==
    /\ IsSubseq(after, before)
    /\ \A i \in 1..Len(after) : ~Drop(after[i])
    /\ Len(after) = Cardinality({i \in 1..Len(before) : ~Drop(before[i])})

\* C16 (as claimed): deleteBook(id) with an id no book has leaves the books
\* and the characters as they were.
C16_DeleteMissingIsNoOp ==
    (Committed /\ last.op = "deleteBook" /\ last.id \notin Ids(prevBooks)) =>
        (books = prevBooks /\ characters = prevCharacters)

\* C16 (amended): deleteBook(id) with an id no book has leaves the books as
\* they were and removes exactly the characters whose bookId is id, so it
\* leaves the characters as they were when none of them refers to id.
C16_DeleteMissingDropsOrphans ==
    (Committed /\ last.op = "deleteBook" /\ last.id \notin Ids(prevBooks)) =>
        /\ books = prevBooks
        /\ RemovedExactly(prevCharacters, characters,
                          LAMBDA c : c.bookId = last.id)
        /\ (\A i \in 1..Len(prevCharacters) :
                prevCharacters[i].bookId # last.id)
               => characters = prevCharacters

\* deleteBook was called with the id of no book while a character referred
\* to that id, and another did not
C16_Witness ==
    /\ Committed
    /\ last.op = "deleteBook"
    /\ last.id \notin Ids(prevBooks)
    /\ prevBooks # <<>>
    /\ Len(prevCharacters) = 2
    /\ Len(characters) = 1
    /\ characters[1].bookId # last.id

\* C17: deleteCharacter(id) removes the characters whose id is id and no
\* other: the books are as they were, the remaining characters are the
\* previous ones with another id, in their order, and with no character of
\* that id both collections are as they were.
C17_DeleteCharacterExact ==
    (Committed /\ last.op = "deleteCharacter") =>
        /\ books = prevBooks
        /\ RemovedExactly(prevCharacters, characters, LAMBDA c : c.id = last.id)
        /\ last.id \notin Ids(prevCharacters) => characters = prevCharacters

\* a character was deleted from a store holding a book of the same id and
\* another character
C17_Witness ==
    /\ Committed
    /\ last.op = "deleteCharacter"
    /\ last.id \in Ids(prevCharacters)
    /\ last.id \in Ids(prevBooks)
    /\ Len(prevCharacters) = 2
    /\ Len(characters) = 1
    /\ characters[1].id # last.id

\* the books the BookList on screen lists
Listed == filteredBooks(books, shown.filterStatus)

\* C18: the wishlist view lists exactly the books whose readStatus is
\* "To Read" and the readBooks view exactly those whose readStatus is "Read",
\* each in the order of the collection, and the books view lists every book.
C18_StatusFilter ==
    /\ view = "wishlist" =>
           /\ shown.comp = "BookList"
           /\ RemovedExactly(books, Listed, LAMBDA b : b.readStatus # "To Read")
    /\ view = "readBooks" =>
           /\ shown.comp = "BookList"
           /\ RemovedExactly(books, Listed, LAMBDA b : b.readStatus # "Read")
    /\ view = "books" => (shown.comp = "BookList" /\ Listed = books)

\* the wishlist is on screen over a book to read and a book that was read,
\* and lists the first only
C18_Witness ==
    /\ Idle
    /\ view = "wishlist"
    /\ Len(books) = 2
    /\ books[1].readStatus = "Read"
    /\ books[2].readStatus = "To Read"
    /\ Listed = <<books[2]>>

\* what a fresh store holds once it has loaded the two slots
Reloaded(storedBooks, storedCharacters) ==
    [books |-> ApplyQueue(loadBooksUpdates(storedBooks, storedCharacters),
                          <<>>, now),
     characters |->
         ApplyQueue(loadCharactersUpdates(storedBooks, storedCharacters),
                    <<>>, now)]

\* C19: the collections of the store, written to the two slots as the save
\* effects write them and loaded by a fresh store as the load effect loads
\* them, come back with the same records, field values and order.
C19_PersistReload ==
    Reloaded(stringifyBooks(books), stringifyCharacters(characters))
        = [books |-> books, characters |-> characters]

\* the slots were written from a store of two books, one of them read, and
\* a character, whose optional fields are empty strings
C19_Witness ==
    /\ Idle
    /\ last.op \in MutationOps
    /\ Len(books) = 2
    /\ \E i \in 1..2 : books[i].readStatus = "Read" /\ books[i].notes = ""
    /\ characters # <<>>
    /\ characters[1].summary = ""
    /\ lsBooks = stringifyBooks(books)
    /\ lsCharacters = stringifyCharacters(characters)
    /\ Reloaded(lsBooks, lsCharacters).books = books

\* the data of a form lacks a required field
Incomplete(data) ==
    IF "title" \in DOMAIN data
    THEN data.title = "" \/ data.author = ""
    ELSE data.name = "" \/ data.bookId = NoId

\* every book has a title and an author, every character a name and a book
WellFormed(bs, cs) ==
    /\ \A i \in 1..Len(bs) : bs[i].title # "" /\ bs[i].author # ""
    /\ \A i \in 1..Len(cs) : cs[i].name # "" /\ cs[i].bookId # NoId

SubmitOps == {"rejected", "addBook", "updateBook", "addCharacter",
              "updateCharacter"}

\* C20: a form submitted with a missing required field calls no store
\* function and no navigation: books, characters, both slots and the
\* navigation state stay as they are and no update is queued; and every
\* record of the store has its required fields.
C20_RejectIncomplete ==
    /\ [](WellFormed(books, characters))
    /\ [][(last'.op \in SubmitOps /\ Incomplete(last'.input[1])) =>
              /\ last'.op = "rejected"
              /\ UNCHANGED <<books, characters, lsBooks, lsCharacters, view,
                             selectedBookId, selectedCharacterId, shown,
                             qBooks, qCharacters, qNav, effects>>]_vars

\* the edit form of a character was submitted with a name and no parent
\* book id, and was rejected
C20_Witness ==
    /\ last.op = "rejected"
    /\ "name" \in DOMAIN last.input[1]
    /\ last.input[1].name # ""
    /\ last.input[1].bookId = NoId
    /\ view = "editCharacter"

\* C21: the characters shown with the active book in the viewBook view are
\* exactly the characters whose bookId is the active book's id, in the order
\* of the collection: none of another book, and none of this book left out.
C21_CharactersOfBook ==
    shown.comp = "BookDetail" =>
        /\ view = "viewBook"
        /\ shown.book # <<>>
        /\ shown.book[1].id = selectedBookId
        /\ RemovedExactly(characters, shown.characters,
                          LAMBDA c : c.bookId # shown.book[1].id)

\* after "View Details" a book is shown with its one character while the
\* store holds a character of another book as well
C21_Witness ==
    /\ Idle
    /\ last.op = "navigate"
    /\ last.nav[1] = "viewBook"
    /\ shown.comp = "BookDetail"
    /\ Len(characters) = 2
    /\ Len(shown.characters) = 1
    /\ shown.characters[1].bookId = shown.book[1].id
    /\ \E i \in 1..2 : characters[i].bookId # shown.book[1].id

\* C22: useData without a provider throws, and App rendered outside a
\* provider shows nothing: no view over an empty or default store.
C22_UseDataOutsideProvider ==
    /\ IsThrown(useData(useContext(FALSE, books, characters)))
    /\ (last.op = "useData" /\ last.input[1] = Undefined)
           => shown = UncaughtError

\* App was rendered without a provider around it, over a store with books
C22_Witness ==
    /\ last.op = "useData"
    /\ last.input[1] = Undefined
    /\ books # <<>>
    /\ shown.comp = "UncaughtError"

\* the navigation state selects records that exist, and the view it names
\* is the one on screen
NavValid ==
    /\ view \in {"viewBook", "editBook"} => selectedBookId \in Ids(books)
    /\ view \in {"viewCharacter", "editCharacter"}
           => selectedCharacterId \in Ids(characters)
    /\ view = "viewBook" => shown.comp = "BookDetail"
    /\ view = "editBook" => (shown.comp = "BookForm" /\ shown.book # <<>>)
    /\ view = "viewCharacter" => shown.comp = "CharacterDetail"
    /\ view = "editCharacter"
           => (shown.comp = "CharacterForm" /\ shown.character # <<>>)

\* C23: in the application started on an empty or referentially intact
\* store, whenever the view is viewBook or editBook the selected book id is
\* the id of a book, whenever it is viewCharacter or editCharacter the
\* selected character id is the id of a character, and the view shown is
\* that view and not the fallback.
C23_NavigationValid ==
    RefIntact(books, characters) => NavValid

\* the book on screen was deleted with its character, and the list of
\* books is shown
C23_Witness ==
    /\ Idle
    /\ last.op = "deleteBook"
    /\ last.nav = <<"books", NoId, NoId>>
    /\ RefIntact(prevBooks, prevCharacters)
    /\ prevCharacters # characters
    /\ last.id \notin Ids(books)
    /\ view = "books"
    /\ shown.comp = "BookList"

\* C24: during startup (from the load effect on, until the first user
\* event) a slot that held a valid non-empty list when the application
\* started still holds that list.
C24_StartupKeepsStorage ==
    last.op = "load" =>
        /\ (last.input[1].kind = "list" /\ last.input[1].items # <<>>)
               => lsBooks = last.input[1]
        /\ (last.input[2].kind = "list" /\ last.input[2].items # <<>>)
               => lsCharacters = last.input[2]

\* C25: at every point after a store operation on a referentially intact
\* store, the pending writes included, a fresh store loaded from the two
\* slots is referentially intact.
C25_PersistedIntact ==
    (last.op \in MutationOps /\ RefIntact(prevBooks, prevCharacters)) =>
        LET fresh == Reloaded(lsBooks, lsCharacters)
        IN  RefIntact(fresh.books, fresh.characters)

\* C26: whenever no render and no effect is pending, each slot holds the
\* serialization of its collection in memory; so it does after the startup,
\* also when the load degraded a malformed payload to empty, and after the
\* effects of every mutation.
C26_StorageInSync ==
    Idle => /\ lsBooks = stringifyBooks(books)
            /\ lsCharacters = stringifyCharacters(characters)

\* the startup is over after a books payload that did not parse: the store
\* is empty and the books slot holds the empty list
C26_Witness ==
    /\ Idle
    /\ last.op = "load"
    /\ last.input[1].kind = "bad"
    /\ books = <<>>
    /\ lsBooks = ListText(<<>>)
    /\ lsCharacters = stringifyCharacters(characters)

\* C27: a call of navigate, with the render that follows it, changes
\* neither collection and neither slot and queues no store update; a call
\* of a store function, with the render and the effects that follow it,
\* changes neither view, selectedBookId nor selectedCharacterId and queues
\* no navigation.
C27_Independent ==
    [][/\ last'.op = "navigate" =>
              UNCHANGED <<books, characters, lsBooks, lsCharacters, qBooks,
                          qCharacters, effects>>
       /\ last'.op \in MutationOps =>
              UNCHANGED <<view, selectedBookId, selectedCharacterId, qNav>>
      ]_vars

\* the book whose page was navigated to has been deleted by a call of
\* deleteBook, and the navigation state still names its page
C27_Witness ==
    /\ Idle
    /\ last.op = "deleteBook"
    /\ last.id \in Ids(prevBooks)
    /\ last.id \notin Ids(books)
    /\ view = "viewBook"
    /\ selectedBookId = last.id

====
